---- MODULE Spec2Model ----
(***************************************************************************)
(* Model of local_flow/rec/src/deploy_model.py: the two deployment         *)
(* functions deploy_tf_model and deploy_model, the helper tf_model_to_tar, *)
(* and the parts of the environment they act on (the local file system,    *)
(* the object store, the wall clock, the hosting platform's endpoints).    *)
(* One process calls the functions one after the other; every external     *)
(* call either returns or raises.                                          *)
(***************************************************************************)
EXTENDS Integers, Sequences, FiniteSets, TLC

\* ---------------------------------------------------------------- bounds
MaxInvocations == 2
MinRunId == 9
MaxRunId == 10
MaxNow == 4
MaxK == 2
MaxVocab == 2
MaxPredictions == 1

\* Clock units per millisecond: the clock is read in half milliseconds.
ClockRes == 2

RunIds == MinRunId..MaxRunId
Models == {"m1", "m2"}
Ks == 1..MaxK
VocabSizes == 1..MaxVocab

\* ------------------------------------------------------- pure functions
None == <<>>

Digit(d) == <<"0", "1", "2", "3", "4", "5", "6", "7", "8", "9">>[d + 1]

RECURSIVE ToDecimal(_)
\* '{}'.format(n) for a non-negative int: its decimal digits
ToDecimal(n) == IF n < 10 THEN <<Digit(n)>>
                ELSE ToDecimal(n \div 10) \o <<Digit(n % 10)>>

\* "intent-model-{}/1".format(run_id)
ModelName(r) == <<"intent-model-">> \o ToDecimal(r) \o <<"/", "1">>

\* a slip of TarName: the template is returned without .format(run_id)
TarNameUnformatted(r) == <<"model-", "{}", ".tar.gz">>

\* 'model-{}.tar.gz'.format(run_id)
TarName(r) == <<"model-">> \o ToDecimal(r) \o <<".tar.gz">>

RECURSIVE SplitFirst(_)
\* path.split('/')[0]
SplitFirst(p) == IF p = <<>> \/ Head(p) = "/" THEN <<>>
                 ELSE <<Head(p)>> \o SplitFirst(Tail(p))

\* whether path p is d or lies below directory d
Under(p, d) == /\ Len(p) >= Len(d)
               /\ SubSeq(p, 1, Len(d)) = d
               /\ (Len(p) = Len(d) \/ p[Len(d) + 1] = "/")

\* shutil.rmtree(d): d and everything below it is gone
RmTree(files, d) == {p \in files : ~Under(p, d)}

\* the paths tf_model.save(filepath=p) creates: p and its parent directory
SavedPaths(p) == {SplitFirst(p), p}

\* int(round(t * 1000)) of a clock reading of t half milliseconds: Python 3
\* rounds a half to the even neighbour
RoundMs(t) == LET q == t \div ClockRes
                  r == t % ClockRes
              IN  IF 2 * r < ClockRes THEN q
                  ELSE IF 2 * r > ClockRes THEN q + 1
                  ELSE IF q % 2 = 0 THEN q ELSE q + 1

\* a slip of TfEndpointName: the clock is read in seconds, int(round(time.time()))
TfEndpointNameSeconds(ms) ==
  <<"intent-">> \o ToDecimal(ms \div 1000) \o <<"-endpoint">>

\* 'intent-{}-endpoint'.format(ms)
TfEndpointName(ms) == <<"intent-">> \o ToDecimal(ms) \o <<"-endpoint">>

\* 'rec-knn-{}-endpoint'.format(ms)
KnnEndpointName(ms) == <<"rec-knn-">> \o ToDecimal(ms) \o <<"-endpoint">>

\* the URL s3.put(key, data) returns for key
S3Url(key) == <<"s3://">> \o key

RECURSIVE Reverse(_)
\* a[::-1]
Reverse(s) == IF s = <<>> THEN <<>> ELSE Reverse(Tail(s)) \o <<Head(s)>>

\* a[1:]
DropFirst(s) == IF s = <<>> THEN <<>> ELSE Tail(s)

\* a slip of SliceLabels: the list is not reversed, np.array(...)[1:]
SliceLabelsNoReverse(L) == DropFirst(L)

\* np.array(result['labels'])[::-1][1:]
SliceLabels(L) == DropFirst(Reverse(L))

\* a slip of ArrayEqual: all(x == y for x, y in zip(a, b)), which stops at the
\* shorter list
ArrayEqualZip(a, b) ==
  \A i \in 1..(IF Len(a) < Len(b) THEN Len(a) ELSE Len(b)) : a[i] = b[i]

\* np.array_equal(a, b): same shape and same elements
ArrayEqual(a, b) == /\ Len(a) = Len(b)
                    /\ \A i \in 1..Len(a) : a[i] = b[i]

\* sequences over S of length exactly n / at most n
SeqsOfLen(S, n) == [1..n -> S]
SeqsUpTo(S, n) == UNION {SeqsOfLen(S, m) : m \in 0..n}

\* number of neighbours similar_by_key(test_key, topn) returns: topn of them,
\* or every other key when there are fewer (none for topn < 1)
TopnLen(topn, v) == IF topn < 1 THEN 0
                    ELSE IF topn < v - 1 THEN topn ELSE v - 1

\* the rankings similar_by_key(index_to_key[0], topn=k-1) can return, as key
\* indices: distinct keys other than the query key itself (index 0)
Rankings(kk, v) == {s \in SeqsOfLen(1..(v - 1), TopnLen(kk - 1, v)) :
                      \A i, j \in 1..Len(s) : i # j => s[i] # s[j]}

\* the label lists an endpoint asked for kk neighbours may answer with: fewer
\* labels, kk of them, or one more
LabelLists(kk, v) == SeqsUpTo(0..(v - 1), kk + 1)

\* ------------------------------------------------------------- state
VARIABLES
  now,            \* wall clock at its last reading, in clock units
  endpoints,      \* endpoints existing on the hosting platform
  s3store,        \* keys stored in the object store
  fs,             \* paths existing on the local file system
  issued,         \* endpoint names derived so far: <<function, ms, name>>
  archives,       \* what the returned tf_model_to_tar calls computed
  inv,            \* number of invocations started
  fn,             \* function being executed
  pc,             \* next statement of the invocation
  run_id,         \* argument run_id
  tf_model,       \* argument model
  k,              \* argument k of deploy_model
  vocab,          \* number of keys of the KeyedVectors argument
  local_tar_name, \* local variable of deploy_tf_model
  model_s3_path,  \* local variable of deploy_tf_model
  endpoint_name,  \* local variable of both functions
  gensim_preds,   \* local variable of deploy_model
  result,         \* local variable of both functions: None, or <<its value>>
  deployed,       \* arguments of the invocation's deploy call that returned
  steps,          \* steps the invocation started, in order
  oks,            \* steps the invocation completed, in order
  failure,        \* exception that ended the invocation
  retval          \* value returned

env == <<now, endpoints, s3store, fs, issued, archives>>
args == <<run_id, tf_model, k, vocab>>
locals == <<local_tar_name, model_s3_path, endpoint_name, gensim_preds, result>>
hist == <<deployed, steps, oks>>
ctl == <<inv, fn, pc, failure, retval>>
vars == <<env, args, locals, hist, ctl>>

Init ==
  /\ now = 0
  /\ endpoints = {}
  /\ s3store = {}
  /\ fs = {}
  /\ issued = {}
  /\ archives = {}
  /\ inv = 0
  /\ fn = "none"
  /\ pc = "idle"
  /\ run_id = MinRunId
  /\ tf_model = "m1"
  /\ k = 1
  /\ vocab = 1
  /\ local_tar_name = None
  /\ model_s3_path = None
  /\ endpoint_name = None
  /\ gensim_preds = None
  /\ result = None
  /\ deployed = None
  /\ steps = <<>>
  /\ oks = <<>>
  /\ failure = "none"
  /\ retval = None

\* ----------------------------------------------------------- helpers
\* the function's frame is gone: its locals no longer exist
DropLocals ==
  /\ local_tar_name' = None
  /\ model_s3_path' = None
  /\ endpoint_name' = None
  /\ gensim_preds' = None
  /\ result' = None

\* an exception leaves the function: nothing catches it
Raise(exc) ==
  /\ pc' = "done"
  /\ failure' = exc
  /\ DropLocals
  /\ UNCHANGED <<inv, fn, retval>>

Goto(l) ==
  /\ pc' = l
  /\ UNCHANGED <<inv, fn, failure, retval>>

Start(s) == steps' = Append(steps, s)
Finish(s) == oks' = Append(oks, s)

\* the state at the start of an invocation
Fresh ==
  /\ DropLocals
  /\ deployed' = None
  /\ steps' = <<>>
  /\ oks' = <<>>
  /\ failure' = "none"
  /\ retval' = None

\* time.time(): some time has passed since the clock was last read
ReadClock == \E t \in now..MaxNow : now' = t

\* ------------------------------------------------ deploy_tf_model
\* deploy_tf_model(model, s3, run_id) is called
Tf_Call ==
  /\ pc \in {"idle", "done"}
  /\ inv < MaxInvocations
  /\ inv' = inv + 1
  /\ fn' = "deploy_tf_model"
  /\ pc' = "load"
  /\ \E r \in RunIds, m \in Models : run_id' = r /\ tf_model' = m
  /\ k' = 1 /\ vocab' = 1
  /\ Fresh
  /\ UNCHANGED env

\* model_from_json and set_weights
Tf_Load ==
  /\ fn = "deploy_tf_model" /\ pc = "load"
  /\ \/ Goto("save") /\ UNCHANGED locals
     \/ Raise("Exception")
  /\ UNCHANGED <<env, args, hist>>

\* tf_model_to_tar: tf_model.save(filepath=model_name); a save that raises may
\* have written any part of the directory
Tf_Save ==
  /\ fn = "deploy_tf_model" /\ pc = "save"
  /\ Start("serialize")
  /\ \/ /\ fs' = fs \cup SavedPaths(ModelName(run_id))
        /\ Goto("tar") /\ UNCHANGED locals
     \/ /\ \E part \in SUBSET SavedPaths(ModelName(run_id)) : fs' = fs \cup part
        /\ Raise("Exception")
  /\ UNCHANGED <<now, endpoints, s3store, issued, archives, args, deployed, oks>>

\* tf_model_to_tar: tarfile.open(local_tar_name, "w:gz") and _tar.add; the
\* archive file exists once it was opened, whatever happens afterwards
Tf_Tar ==
  /\ fn = "deploy_tf_model" /\ pc = "tar"
  /\ \/ /\ fs' = fs \cup {TarName(run_id)}
        /\ Goto("rmtree") /\ UNCHANGED locals
     \/ /\ fs' = fs \cup {TarName(run_id)}
        /\ Raise("Exception")
     \/ /\ fs' = fs
        /\ Raise("Exception")
  /\ UNCHANGED <<now, endpoints, s3store, issued, archives, args, hist>>

\* the directory tf_model_to_tar removes
RemovedDir == SplitFirst(ModelName(run_id))

\* tf_model_to_tar: shutil.rmtree(...) and return local_tar_name
Tf_RmTree ==
  /\ fn = "deploy_tf_model" /\ pc = "rmtree"
  /\ fs' = RmTree(fs, RemovedDir)
  /\ local_tar_name' = TarName(run_id)
  /\ archives' = archives \cup {[run |-> run_id, model |-> tf_model,
                                 tar |-> TarName(run_id),
                                 path |-> ModelName(run_id)]}
  /\ Finish("serialize")
  /\ Goto("put")
  /\ UNCHANGED <<now, endpoints, s3store, issued, args, model_s3_path,
                 endpoint_name, gensim_preds, result, deployed, steps>>

\* open(local_tar_name, "rb"), read, s3.put(local_tar_name, data)
Tf_Put ==
  /\ fn = "deploy_tf_model" /\ pc = "put"
  /\ Start("upload")
  /\ \/ /\ s3store' = s3store \cup {local_tar_name}
        /\ model_s3_path' = S3Url(local_tar_name)
        /\ Finish("upload")
        /\ Goto("remove")
        /\ UNCHANGED <<local_tar_name, endpoint_name, gensim_preds, result>>
     \/ /\ UNCHANGED <<s3store, oks>>
        /\ Raise("Exception")
  /\ UNCHANGED <<now, endpoints, fs, issued, archives, args, deployed>>

\* a slip of FilesAfterUpload: os.remove(local_tar_name) is missing
FilesAfterUploadKept == fs

\* the local files left after the upload
FilesAfterUpload == fs \ {local_tar_name}

\* os.remove(local_tar_name)
Tf_Remove ==
  /\ fn = "deploy_tf_model" /\ pc = "remove"
  /\ fs' = FilesAfterUpload
  /\ Goto("name")
  /\ UNCHANGED <<now, endpoints, s3store, issued, archives, args, locals, hist>>

\* endpoint_name = 'intent-{}-endpoint'.format(int(round(time.time() * 1000)))
Tf_Name ==
  /\ fn = "deploy_tf_model" /\ pc = "name"
  /\ ReadClock
  /\ endpoint_name' = TfEndpointName(RoundMs(now'))
  /\ issued' = issued \cup {<<fn, RoundMs(now'), endpoint_name'>>}
  /\ Goto("deploy")
  /\ UNCHANGED <<endpoints, s3store, fs, archives, args, local_tar_name,
                 model_s3_path, gensim_preds, result, hist>>

\* TensorFlowModel(model_data=...)
ModelData == model_s3_path

\* model.deploy(...) returns: the endpoint exists from now on
Tf_DeployReturns ==
  /\ endpoint_name \notin endpoints
  /\ endpoints' = endpoints \cup {endpoint_name}
  /\ deployed' = <<ModelData, endpoint_name>>
  /\ Finish("deploy")
  /\ Goto("predict") /\ UNCHANGED locals

\* a slip of Tf_DeployRaises: the exception is caught and the function goes on
Tf_DeployRaisesSwallowed ==
  /\ UNCHANGED <<endpoints, deployed, oks>>
  /\ Goto("predict") /\ UNCHANGED locals

\* model.deploy(...) raises (always when the endpoint name is taken)
Tf_DeployRaises ==
  /\ UNCHANGED <<endpoints, deployed, oks>>
  /\ Raise("Exception")

\* predictor = model.deploy(..., endpoint_name=endpoint_name)
Tf_Deploy ==
  /\ fn = "deploy_tf_model" /\ pc = "deploy"
  /\ Start("deploy")
  /\ \/ Tf_DeployReturns
     \/ Tf_DeployRaises
  /\ UNCHANGED <<now, s3store, fs, issued, archives, args>>

\* the answers of the classifier endpoint: a JSON object without a
\* 'predictions' entry, or with a list of predictions
TfResponses == {None} \cup {<<p>> : p \in SeqsUpTo({1}, MaxPredictions)}

\* result = predictor.predict(test_inp)
Tf_Predict ==
  /\ fn = "deploy_tf_model" /\ pc = "predict"
  /\ Start("predict")
  /\ \/ /\ \E r \in TfResponses : result' = r
        /\ Finish("predict")
        /\ Goto("assert")
        /\ UNCHANGED <<local_tar_name, model_s3_path, endpoint_name, gensim_preds>>
     \/ /\ UNCHANGED oks
        /\ Raise("Exception")
  /\ UNCHANGED <<env, args, deployed>>

\* a slip of Truthy: the assertion tests result['predictions'] is not None
TruthyNotNone(l) == TRUE

\* truth value of a list
Truthy(l) == Len(l) > 0

\* the assertion fails: AssertionError leaves the function, which has no
\* handler and makes no further call, so the endpoint is left as it is
Tf_AssertFails ==
  /\ endpoints' = endpoints
  /\ Raise("AssertionError")

\* assert result['predictions']
Tf_Assert ==
  /\ fn = "deploy_tf_model" /\ pc = "assert"
  /\ Start("check")
  /\ \/ /\ result = None
        /\ UNCHANGED <<oks, endpoints>>
        /\ Raise("KeyError")
     \/ /\ result # None /\ ~Truthy(result[1])
        /\ UNCHANGED oks
        /\ Tf_AssertFails
     \/ /\ result # None /\ Truthy(result[1])
        /\ Finish("check")
        /\ endpoints' = endpoints
        /\ Goto("return") /\ UNCHANGED locals
  /\ UNCHANGED <<now, s3store, fs, issued, archives, args, deployed>>

\* return model_s3_path, endpoint_name
Tf_Return ==
  /\ fn = "deploy_tf_model" /\ pc = "return"
  /\ Start("return")
  /\ Finish("return")
  /\ retval' = <<model_s3_path, endpoint_name>>
  /\ pc' = "done"
  /\ DropLocals
  /\ UNCHANGED <<env, args, deployed, inv, fn, failure>>

Tf_Next ==
  \/ Tf_Call \/ Tf_Load \/ Tf_Save \/ Tf_Tar \/ Tf_RmTree \/ Tf_Put
  \/ Tf_Remove \/ Tf_Name \/ Tf_Deploy \/ Tf_Predict \/ Tf_Assert \/ Tf_Return

\* ---------------------------------------------------- deploy_model
\* deploy_model(vectors_s3_path, model, k) is called
Knn_Call ==
  /\ pc \in {"idle", "done"}
  /\ inv < MaxInvocations
  /\ inv' = inv + 1
  /\ fn' = "deploy_model"
  /\ pc' = "name"
  /\ \E kk \in Ks, v \in VocabSizes : k' = kk /\ vocab' = v
  /\ run_id' = MinRunId /\ tf_model' = "m1"
  /\ Fresh
  /\ UNCHANGED env

\* endpoint_name = 'rec-knn-{}-endpoint'.format(int(round(time.time() * 1000)))
Knn_Name ==
  /\ fn = "deploy_model" /\ pc = "name"
  /\ Start("name")
  /\ Finish("name")
  /\ ReadClock
  /\ endpoint_name' = KnnEndpointName(RoundMs(now'))
  /\ issued' = issued \cup {<<fn, RoundMs(now'), endpoint_name'>>}
  /\ Goto("fit")
  /\ UNCHANGED <<endpoints, s3store, fs, archives, args, local_tar_name,
                 model_s3_path, gensim_preds, result, deployed>>

\* knn_model.fit(fit_input) returns
Knn_FitReturns ==
  /\ Finish("fit")
  /\ Goto("deploy") /\ UNCHANGED locals

\* the estimator is set up and knn_model.fit(fit_input) is called
Knn_Fit ==
  /\ fn = "deploy_model" /\ pc = "fit"
  /\ Start("fit")
  /\ \/ Knn_FitReturns
     \/ /\ UNCHANGED oks
        /\ Raise("Exception")
  /\ UNCHANGED <<env, args, deployed>>

\* a slip of Knn_DeployName: the name is built anew with the other function's
\* template
Knn_DeployNameOther == TfEndpointName(RoundMs(now))

\* the endpoint_name argument of knn_model.deploy
Knn_DeployName == endpoint_name

\* knn_model.deploy(...) returns: the endpoint exists from now on
Knn_DeployReturns ==
  /\ Knn_DeployName \notin endpoints
  /\ endpoints' = endpoints \cup {Knn_DeployName}
  /\ deployed' = <<None, Knn_DeployName>>
  /\ Finish("deploy")
  /\ Goto("local") /\ UNCHANGED locals

\* knn_model.deploy(...) raises (always when the endpoint name is taken)
Knn_DeployRaises ==
  /\ UNCHANGED <<endpoints, deployed, oks>>
  /\ Raise("Exception")

\* predictor = knn_model.deploy(..., endpoint_name=endpoint_name, ...)
Knn_Deploy ==
  /\ fn = "deploy_model" /\ pc = "deploy"
  /\ Start("deploy")
  /\ \/ Knn_DeployReturns
     \/ Knn_DeployRaises
  /\ UNCHANGED <<now, s3store, fs, issued, archives, args>>

\* test_key = model.index_to_key[0]; gensim_preds = the key indices of
\* model.similar_by_key(test_key, topn=k-1)
Knn_Local ==
  /\ fn = "deploy_model" /\ pc = "local"
  /\ \E g \in Rankings(k, vocab) : gensim_preds' = g
  /\ Goto("predict")
  /\ UNCHANGED <<env, args, local_tar_name, model_s3_path, endpoint_name,
                 result, hist>>

\* the answers of the nearest-neighbour endpoint, as ['predictions'][0]: an
\* object without a 'labels' entry, or with a list of labels
KnnResponses == {None} \cup {<<L>> : L \in LabelLists(k, vocab)}

\* a slip of Knn_PredictRaises: the call is wrapped in a retry loop
Knn_PredictRetried ==
  /\ UNCHANGED oks
  /\ Goto("predict") /\ UNCHANGED locals

\* predictor.predict(test_vector, ...) raises, or its answer has no
\* ['predictions'][0]
Knn_PredictRaises ==
  /\ UNCHANGED oks
  /\ Raise("Exception")

\* result = predictor.predict(test_vector, ...)['predictions'][0]
Knn_Predict ==
  /\ fn = "deploy_model" /\ pc = "predict"
  /\ Start("predict")
  /\ \/ /\ \E r \in KnnResponses : result' = r
        /\ Finish("predict")
        /\ Goto("check")
        /\ UNCHANGED <<local_tar_name, model_s3_path, endpoint_name, gensim_preds>>
     \/ Knn_PredictRaises
  /\ UNCHANGED <<env, args, deployed>>

\* a slip of Knn_AssertFails: the endpoint is deleted before the error leaves
Knn_AssertFailsCleanup ==
  /\ endpoints' = endpoints \ {endpoint_name}
  /\ Raise("AssertionError")

\* the assertion fails: AssertionError leaves the function, which has no
\* handler and makes no further call, so the endpoint is left as it is
Knn_AssertFails ==
  /\ endpoints' = endpoints
  /\ Raise("AssertionError")

\* result = np.array(result['labels'])[::-1][1:] and
\* assert np.array_equal(gensim_preds, result)
Knn_Check ==
  /\ fn = "deploy_model" /\ pc = "check"
  /\ Start("check")
  /\ \/ /\ result = None
        /\ UNCHANGED <<oks, endpoints>>
        /\ Raise("KeyError")
     \/ /\ result # None
        /\ ~ArrayEqual(gensim_preds, SliceLabels(result[1]))
        /\ UNCHANGED oks
        /\ Knn_AssertFails
     \/ /\ result # None
        /\ ArrayEqual(gensim_preds, SliceLabels(result[1]))
        /\ result' = <<SliceLabels(result[1])>>
        /\ Finish("check")
        /\ endpoints' = endpoints
        /\ Goto("return")
        /\ UNCHANGED <<local_tar_name, model_s3_path, endpoint_name, gensim_preds>>
  /\ UNCHANGED <<now, s3store, fs, issued, archives, args, deployed>>

\* return endpoint_name
Knn_Return ==
  /\ fn = "deploy_model" /\ pc = "return"
  /\ Start("return")
  /\ Finish("return")
  /\ retval' = <<endpoint_name>>
  /\ pc' = "done"
  /\ DropLocals
  /\ UNCHANGED <<env, args, deployed, inv, fn, failure>>

Knn_Next ==
  \/ Knn_Call \/ Knn_Name \/ Knn_Fit \/ Knn_Deploy \/ Knn_Local
  \/ Knn_Predict \/ Knn_Check \/ Knn_Return

Next == Tf_Next \/ Knn_Next

Spec == Init /\ [][Next]_vars



\* ------------------------------------------------------------ claims
Range(s) == {s[i] : i \in 1..Len(s)}
IsPrefix(s, t) == Len(s) <= Len(t) /\ SubSeq(t, 1, Len(s)) = s
Last(s) == s[Len(s)]

InTf == fn = "deploy_tf_model"
InKnn == fn = "deploy_model"

\* the steps of the two functions, in the order of the source
TfOrder == <<"serialize", "upload", "deploy", "predict", "check", "return">>
KnnOrder == <<"name", "fit", "deploy", "predict", "check", "return">>

\* the labels the endpoint answered with, while deploy_model is about to
\* compare them
AtCheck == InKnn /\ pc = "check" /\ result # None
Labels == result[1]

\* C1: deploy_model returns the endpoint name only when the ranking obtained
\* from the endpoint's answer (its labels reversed, without the first) equals
\* the local reference ranking; for every answer whose ranking differs the
\* invocation ends in AssertionError and returns nothing.
C1_ReturnsOnlyOnEqualRanking ==
  [][/\ AtCheck =>
          IF SliceLabels(Labels) = gensim_preds
          THEN pc' = "return" /\ failure' = "none"
          ELSE pc' = "done" /\ failure' = "AssertionError" /\ retval' = None
     /\ (InKnn /\ inv' = inv /\ retval = None /\ retval' # None) =>
          /\ pc = "return"
          /\ result = <<gensim_preds>>
          /\ retval' = <<endpoint_name>>]_vars

\* C1 witness: deploy_model has returned the endpoint name after comparing a
\* non-empty ranking
C1_Witness ==
  InKnn /\ pc = "done" /\ retval # None /\ k = 2 /\ vocab = 2


\* what the claim C10 gives as the condition for the assertion to pass: L has
\* kk entries and L[kk-2], ..., L[0] (counted from 0) are the kk-1 local neighbours
PassesAsClaimed(L, g, kk) ==
  /\ Len(L) = kk
  /\ Len(g) = kk - 1
  /\ \A i \in 1..(kk - 1) : L[kk - i] = g[i]

\* the condition for a local ranking g of any length: L has one entry more
\* than g and, read backwards from its last but one entry, equals g; or both
\* are empty
PassesFor(L, g) ==
  \/ /\ Len(L) = Len(g) + 1
     /\ \A i \in 1..Len(g) : L[Len(g) + 1 - i] = g[i]
  \/ L = <<>> /\ g = <<>>

C2_ArchiveNamingDeterministic ==
  \A a, b \in archives :
    /\ a.run = b.run => a.tar = b.tar /\ a.path = b.path
    /\ a.run # b.run => a.tar # b.tar
    /\ Head(a.tar) = "model-" /\ Last(a.tar) = ".tar.gz"
    /\ SubSeq(a.tar, 2, Len(a.tar) - 1) = ToDecimal(a.run)
    /\ Head(a.path) = "intent-model-"
    /\ SubSeq(a.path, 2, Len(a.path)) = ToDecimal(a.run) \o <<"/", "1">>

\* C2 witness: two invocations with the same run_id and different models have
\* returned from tf_model_to_tar, the second after the clock moved on
C2_Witness ==
  /\ \E a, b \in archives : a.run = b.run /\ a.model # b.model
  /\ inv = 2 /\ now > 0

\* C3 as claimed: no invocation derives an endpoint name that an earlier
\* invocation derived, even when both read the clock in the same millisecond.
C3_NamesNeverRepeat ==
  [][(endpoint_name = None /\ endpoint_name' # None) =>
       \A e \in issued : e[3] # endpoint_name']_vars

\* C3 amended: two invocations derive the same endpoint name exactly when they
\* are invocations of the same function whose clock readings round to the
\* same millisecond; readings in different milliseconds give different names.
C3_NamesRepeatOnlyInSameMs ==
  [][(endpoint_name = None /\ endpoint_name' # None) =>
       /\ \E ms \in 0..(MaxNow + 1) :
            /\ issued' = issued \cup {<<fn, ms, endpoint_name'>>}
            /\ 2 * (ms * ClockRes - now') \in -ClockRes..ClockRes
       /\ \A e, f \in issued' : e[3] = f[3] <=> (e[1] = f[1] /\ e[2] = f[2])]_vars

\* C3 witness: one function has derived names in two different milliseconds
C3_Witness ==
  \E e, f \in issued : e[1] = f[1] /\ e[2] # f[2] /\ e[3] # f[3]


\* position of step x in the sequence s, 0 when it is not there
IndexOf(x, s) == IF x \in Range(s) THEN CHOOSE i \in 1..Len(s) : s[i] = x ELSE 0

\* C4: in both functions predictor.predict is invoked only after the deploy
\* call of the same invocation has returned; an invocation whose deploy call
\* raised never issues an inference request.
C4_DeployBeforePredict ==
  /\ "predict" \in Range(steps) =>
       /\ "deploy" \in Range(oks)
       /\ deployed # None
       /\ IndexOf("deploy", steps) < IndexOf("predict", steps)
  /\ ("deploy" \in Range(steps) /\ "deploy" \notin Range(oks) /\ pc = "done") =>
       /\ failure # "none"
       /\ "predict" \notin Range(steps)

\* C4 witness: an inference request has been issued
C4_Witness ==
  InTf /\ "predict" \in Range(steps) /\ deployed # None

\* C5: deploy_tf_model performs serialize, upload, deploy, predict, check,
\* return in that order, each at most once and only after the one before it
\* succeeded; the endpoint is created from the URL the upload returned; the
\* pair returned is that URL and the endpoint name passed to deploy, and it is
\* returned only when the response has non-empty 'predictions'.
C5_TfStepsInOrder ==
  InTf =>
    /\ IsPrefix(steps, TfOrder)
    /\ IsPrefix(oks, TfOrder)
    /\ Len(oks) <= Len(steps) /\ Len(steps) <= Len(oks) + 1
    /\ deployed # None =>
         /\ deployed[1] = <<"s3://">> \o TarName(run_id)
         /\ TarName(run_id) \in s3store
         /\ model_s3_path # None => deployed[1] = model_s3_path
         /\ endpoint_name # None => deployed[2] = endpoint_name
    /\ pc = "return" => result # None /\ Len(result[1]) > 0
    /\ retval # None => retval = deployed /\ oks = TfOrder

\* C5 witness: deploy_tf_model has returned its pair
C5_Witness ==
  InTf /\ pc = "done" /\ retval # None /\ failure = "none"

\* the external calls among the steps
External == {"upload", "fit", "deploy", "predict"}

\* C6: each external call is issued at most once per invocation, and once a
\* call has raised or the assertion has failed, the invocation starts no
\* further step and returns nothing.
C6_NoRetryNoRecovery ==
  [][inv' = inv =>
       /\ steps' # steps =>
            /\ failure = "none"
            /\ steps' = Append(steps, Last(steps'))
            /\ Last(steps') \notin Range(steps)
       /\ failure # "none" =>
            /\ pc = "done" /\ pc' = "done"
            /\ steps' = steps
            /\ failure' = failure
            /\ retval = None /\ retval' = None
            /\ endpoints' = endpoints /\ s3store' = s3store]_vars

\* C6 witness: the inference call has raised and ended the invocation
C6_Witness ==
  /\ InKnn /\ pc = "done" /\ failure = "Exception"
  /\ Last(steps) = "predict" /\ Last(steps) \in External

\* C7: the endpoint a deploy call created exists in every later state of the
\* invocation, also after the smoke test or the comparison failed.
C7_EndpointNeverShutDown ==
  deployed # None => deployed[2] \in endpoints

\* C7 witness: the comparison failed after the endpoint was created
C7_Witness ==
  InKnn /\ failure = "AssertionError" /\ deployed # None /\ retval = None

\* neither the archive nor the saved-model directory of run_id exists
NoLocalArtifact ==
  /\ TarName(run_id) \notin fs
  /\ \A p \in fs : ~Under(p, <<"intent-model-">> \o ToDecimal(run_id))

\* C8 as claimed: whenever deploy_tf_model has ended, normally or by a failure
\* of any step, and whenever endpoint creation is requested, neither the local
\* archive nor the local saved-model directory exists.
C8_ArtifactGoneAtEveryEnd ==
  (InTf /\ pc \in {"done", "deploy"}) => NoLocalArtifact

\* C8 amended: neither exists when endpoint creation is requested, nor in any
\* later state of the invocation: when it ends normally or by a failure of
\* deploy, inference or the assertion. (A failure of saving, archiving or the
\* upload leaves what was written.)
C8_ArtifactGoneFromDeployOn ==
  (InTf /\ (pc = "deploy" \/ "deploy" \in Range(steps))) => NoLocalArtifact

\* C8 witness: the invocation ended by a failed assertion after the upload
C8_Witness ==
  /\ InTf /\ pc = "done" /\ failure = "AssertionError"
  /\ TarName(run_id) \in s3store

\* C9: deploy_model derives the endpoint name, then fits, then deploys, each
\* only after the one before it succeeded; the endpoint is deployed under the
\* name derived at the start, and that name is the value returned.
C9_KnnNameFitDeploy ==
  InKnn =>
    /\ IsPrefix(steps, KnnOrder)
    /\ IsPrefix(oks, KnnOrder)
    /\ Len(oks) <= Len(steps) /\ Len(steps) <= Len(oks) + 1
    /\ deployed # None =>
         /\ endpoint_name # None => deployed[2] = endpoint_name
         /\ \E e \in issued : e[1] = fn /\ e[3] = deployed[2]
         /\ Head(deployed[2]) = "rec-knn-"
    /\ retval # None => retval = <<deployed[2]>> /\ oks = KnnOrder

\* C9 witness: deploy_model has returned the name it deployed under
C9_Witness ==
  InKnn /\ pc = "done" /\ deployed # None /\ retval = <<deployed[2]>>

====
